---- MODULE Spec2Model ----
(***************************************************************************)
(* A model of the LCD class of src/i2c_lcd/lcd.py: a text buffer (a        *)
(* UserList of strings) that is drawn on an HD44780 character display      *)
(* behind a PCA8574 I2C port expander.                                     *)
(*                                                                         *)
(* A character is a one-character string, a text is a sequence of          *)
(* characters, the buffer is a sequence of texts.  Every call of           *)
(* _i2c_write and of sleep that an operation makes is appended to `io`,    *)
(* which holds the events of the most recent operation only.               *)
(***************************************************************************)
EXTENDS Integers, Sequences, FiniteSets, TLC

VARIABLES
    data,                 \* UserList.data: the text buffer
    _display_width,       \* constructor argument width
    _display_height,      \* constructor argument height
    _backlight,
    _display_on,
    _cursor_on,
    _blink_on,
    _truncate_mode,
    _scroll_bar,
    _current_start_line,
    io,                   \* the sleep and _i2c_write calls of the last operation
    lastOp,               \* the last operation; "mutation" for each list operation
                          \* that LCD overrides with the same two statements
    lastArgs,             \* the arguments of the last operation, where it was a call
                          \* of _set_display_address, define_custom_character,
                          \* set_truncate_mode or pop
    redraws,              \* how many times the last operation called _redraw
    again,                \* the last two operations were show with one start line
    cgram,                \* the address counter of the controller pointed into the
                          \* character generator memory when the last operation began
    raised,               \* "none", or the exception the last operation raised
    retval,               \* what the last operation returned
    t_text, t_width, t_mode, t_result, t_pc   \* one call of _truncate (SpecTruncate);
                          \* t_mode is self._truncate_mode at the call

lcdvars == <<data, _display_width, _display_height, _backlight, _display_on,
             _cursor_on, _blink_on, _truncate_mode, _scroll_bar,
             _current_start_line, io, lastOp, lastArgs, redraws, again,
             cgram, raised, retval>>
tvars == <<t_text, t_width, t_mode, t_result, t_pc>>
vars == <<lcdvars, tvars>>

----------------------------------------------------------------------------
(* Bounds of the model. *)

\* the buffer grows to at most MaxExtra lines more than the display has rows
MaxExtra == 1
\* the width of the display
MaxWidth == 6
\* the longest text handed to _truncate in SpecTruncate
MaxText == 9
\* the bus writes of an operation of which one may fail: the first MaxFail
MaxFail == 5

----------------------------------------------------------------------------
(* Characters and texts. *)

Letters == <<"a", "b", "c", "d", "e", "f", "g", "h", "i", "j", "k", "l">>

Chars == {" ", ".", "^", "v"} \cup {Letters[i] : i \in 1..Len(Letters)}

\* the ASCII code of each character, tabulated once
AsciiCode ==
    [ch \in Chars |->
        CASE ch = " " -> 32
          [] ch = "." -> 46
          [] ch = "^" -> 94
          [] ch = "v" -> 118
          [] OTHER -> 96 + (CHOOSE i \in 1..Len(Letters) : Letters[i] = ch)] @@ << >>

\* bytearray(s, "ascii"): the code of a character
Ascii(ch) == AsciiCode[ch]

\* " " * n
Spaces(n) == [i \in 1..(IF n > 0 THEN n ELSE 0) |-> " "]

\* text[:stop] of Python, for any integer stop
SliceTo(s, stop) ==
    LET n == Len(s)
        e == IF stop < 0 THEN (IF n + stop < 0 THEN 0 ELSE n + stop)
             ELSE (IF stop > n THEN n ELSE stop)
    IN  SubSeq(s, 1, e)

\* text[start:] of Python, for any integer start
SliceFrom(s, start) ==
    LET n == Len(s)
        b == IF start < 0 THEN (IF n + start < 0 THEN 0 ELSE n + start)
             ELSE (IF start > n THEN n ELSE start)
    IN  SubSeq(s, b + 1, n)

\* round() of Python applied to a number given in tenths: to the nearest
\* integer, a tie to the even one
Round10(tenths) ==
    LET q == tenths \div 10
        r == tenths % 10
    IN  IF r < 5 THEN q
        ELSE IF r > 5 THEN q + 1
        ELSE IF q % 2 = 0 THEN q ELSE q + 1

----------------------------------------------------------------------------
(* Bit operations on bytes. *)

RECURSIVE BitOr(_, _)
BitOr(a, b) ==
    IF a = 0 THEN b
    ELSE IF b = 0 THEN a
    ELSE (IF a % 2 = 1 \/ b % 2 = 1 THEN 1 ELSE 0) + 2 * BitOr(a \div 2, b \div 2)

RECURSIVE BitAnd(_, _)
BitAnd(a, b) ==
    IF a = 0 \/ b = 0 THEN 0
    ELSE (IF a % 2 = 1 /\ b % 2 = 1 THEN 1 ELSE 0) + 2 * BitAnd(a \div 2, b \div 2)

----------------------------------------------------------------------------
(* LCD._Commands and the control bits of the port expander. *)

CLEAR_DISPLAY == 1
SET_DISPLAY_MODE == 8
DISPLAY_ON == 4
CURSOR_ON == 2
BLINK_ON == 1
SET_CGRAM_ADDRESS == 64
SET_DDRAM_ADDRESS == 128

INSTRUCTION_REGISTER == 0
DATA_REGISTER == 1
WRITE == 0
ENABLE == 4
BACKLIGHT_ON == 8
BACKLIGHT_OFF == 0

TruncateMode == {"TRUNCATE", "ELLIPSIS_END", "ELLIPSIS_MIDDLE", "SCROLL"}
Cursor == {"NONE", "BLINK", "UNDERSCORE"}

\* line_addresses of _set_display_address
line_addresses == <<0, 64, 20, 84>>

----------------------------------------------------------------------------
(* The object.  `self` is the record of the attributes of the LCD object;  *)
(* the methods are operators on it.  A method that writes to the bus       *)
(* yields an outcome: the events it caused, in order, and the exception it *)
(* raised ("none" when it returned).                                       *)

Self ==
    [data |-> data, width |-> _display_width, height |-> _display_height,
     backlight |-> _backlight, display_on |-> _display_on,
     cursor_on |-> _cursor_on, blink_on |-> _blink_on,
     truncate_mode |-> _truncate_mode, scroll_bar |-> _scroll_bar,
     current_start_line |-> _current_start_line]

Out(ev, exc) == [ev |-> ev, exc |-> exc]
Nothing == Out(<< >>, "none")
Raise(exc) == Out(<< >>, exc)

\* statement a; statement b: b runs only when a returned
Then(a, b) ==
    IF a.exc # "none" THEN a ELSE Out(a.ev \o b.ev, b.exc)

\* sleep(seconds), the time given in milliseconds
sleep(ms) == Out(<<[k |-> "sleep", v |-> ms]>>, "none")

\* _i2c_write: one byte handed to SMBus.write_byte
_i2c_write(d) == Out(<<[k |-> "write", v |-> d]>>, "none")

\* _lcd_write4: one nibble, in the upper four bits of d, with the register
\* select, write and backlight bits, with Enable asserted and then not
\* _lcd_write4 setting the backlight bit whatever self._backlight is
_lcd_write4_lit(self, register, d) ==
    LET d1 == BitOr(d, BitOr(register, WRITE))
        d2 == BitOr(d1, BACKLIGHT_ON)
    IN  Then(_i2c_write(BitOr(d2, ENABLE)), _i2c_write(d2))

_lcd_write4(self, register, d) ==
    LET d1 == BitOr(d, BitOr(register, WRITE))
        d2 == IF self.backlight THEN BitOr(d1, BACKLIGHT_ON)
              ELSE BitOr(d1, BACKLIGHT_OFF)
    IN  Then(_i2c_write(BitOr(d2, ENABLE)), _i2c_write(d2))

\* _lcd_write_byte writing the lower bits first
_lcd_write_byte_low_first(self, register, d) ==
    LET lo == BitAnd(d, 15)
        hi == BitAnd(d, 240)
    IN  Then(_lcd_write4(self, register, lo * 16), _lcd_write4(self, register, hi))

\* _lcd_write_byte: the upper bits, then the lower bits
_lcd_write_byte(self, register, d) ==
    LET lo == BitAnd(d, 15)
        hi == BitAnd(d, 240)
    IN  Then(_lcd_write4(self, register, hi), _lcd_write4(self, register, lo * 16))

\* the events of _lcd_write_byte for every backlight state, register and
\* byte, tabulated once
ByteEvents(backlight, register) ==
    [d \in 0..255 |-> _lcd_write_byte([backlight |-> backlight], register, d)] @@ << >>
CommandOn == ByteEvents(TRUE, INSTRUCTION_REGISTER)
CommandOff == ByteEvents(FALSE, INSTRUCTION_REGISTER)
DataOn == ByteEvents(TRUE, DATA_REGISTER)
DataOff == ByteEvents(FALSE, DATA_REGISTER)

_write_command(self, command_bits) ==
    IF self.backlight THEN CommandOn[command_bits] ELSE CommandOff[command_bits]

_write_data(self, d) ==
    IF self.backlight THEN DataOn[d] ELSE DataOff[d]

----------------------------------------------------------------------------
(* Drawing. *)

\* _truncate: the text cut or padded for the display, or the exception
\* _truncate cutting at the width and padding nothing
_truncate_unpadded(self, text, width) ==
    [text |-> SliceTo(text, width), exc |-> "none"]

_truncate(self, text, width) ==
    LET ellipsis == <<".", ".">>
    IN  IF Len(text) <= width
            THEN [text |-> text \o Spaces(width - Len(text)), exc |-> "none"]
        ELSE IF self.truncate_mode = "TRUNCATE"
            THEN [text |-> SliceTo(text, width), exc |-> "none"]
        ELSE IF self.truncate_mode = "ELLIPSIS_END"
            THEN [text |-> SliceTo(text, width - Len(ellipsis)) \o <<".", ".", ".">>,
                  exc |-> "none"]
        ELSE IF self.truncate_mode = "ELLIPSIS_MIDDLE"
            THEN LET first == SliceTo(text, Round10(5 * width + 1))
                     last == SliceFrom(text, -(Round10(5 * width - 1) - Len(ellipsis)))
                 IN  [text |-> first \o ellipsis \o last, exc |-> "none"]
        ELSE IF self.truncate_mode = "SCROLL"
            THEN [text |-> text, exc |-> "NotImplementedError"]
        ELSE [text |-> text, exc |-> "ValueError"]

\* _set_display_address: the range checks, then the set-DDRAM-address command
\* _set_display_address with the rows one after another in the display memory
_set_display_address_linear(self, line, position) ==
    IF ~(0 <= line /\ line < self.height) THEN Raise("ValueError")
    ELSE IF ~(0 <= position /\ position < self.width) THEN Raise("ValueError")
    ELSE _write_command(self, BitOr(SET_DDRAM_ADDRESS, line * 20 + position))

_set_display_address(self, line, position) ==
    IF ~(0 <= line /\ line < self.height) THEN Raise("ValueError")
    ELSE IF ~(0 <= position /\ position < self.width) THEN Raise("ValueError")
    ELSE IF line + 1 > Len(line_addresses) THEN Raise("IndexError")
    ELSE _write_command(self, BitOr(SET_DDRAM_ADDRESS, line_addresses[line + 1] + position))

\* the for loop of _print_at without the test of the position
RECURSIVE PrintLoop_unclamped(_, _, _)
PrintLoop_unclamped(self, s, i) ==
    IF i > Len(s) THEN Nothing
    ELSE Then(_write_data(self, Ascii(s[i])), PrintLoop_unclamped(self, s, i + 1))

\* the for loop of _print_at from character number i (from 1) of s on:
\* write the character, count it, stop at the display width
RECURSIVE PrintLoop(_, _, _)
PrintLoop(self, s, i) ==
    IF i > Len(s) THEN Nothing
    ELSE LET w == _write_data(self, Ascii(s[i]))
         IN  IF i >= self.width THEN w
             ELSE Then(w, PrintLoop(self, s, i + 1))

\* _print_at writing at the address the controller is left with
_print_at_unaddressed(self, line, s) ==
    PrintLoop(self, s, 1)

_print_at(self, line, s) ==
    Then(_set_display_address(self, line, 0), PrintLoop(self, s, 1))

\* the scroll bar character _redraw puts before the text of a row
Prefix(self, display_line, up, down) ==
    IF ~self.scroll_bar THEN << >>
    ELSE IF display_line = 0 THEN <<up>>
    ELSE IF display_line = self.height - 1 THEN <<down>>
    ELSE <<" ">>

\* the text _redraw hands to _print_at for a row, or the exception of _truncate
LineText(self, display_line, up, down) ==
    LET prefix == Prefix(self, display_line, up, down)
        text_index == self.current_start_line + display_line
    IN  IF 0 <= text_index /\ text_index < Len(self.data)
        THEN _truncate(self, prefix \o self.data[text_index + 1], self.width)
        ELSE [text |-> prefix \o Spaces(self.width - Len(prefix)), exc |-> "none"]

\* one pass of the for loop of _redraw
RedrawLine(self, display_line, up, down) ==
    LET t == LineText(self, display_line, up, down)
    IN  IF t.exc # "none" THEN Raise(t.exc)
        ELSE _print_at(self, display_line, t.text)

RECURSIVE RedrawLoop(_, _, _, _)
RedrawLoop(self, display_line, up, down) ==
    IF display_line >= self.height THEN Nothing
    ELSE Then(RedrawLine(self, display_line, up, down),
              RedrawLoop(self, display_line + 1, up, down))

\* the characters of the scroll bar
Up(self) == IF self.current_start_line > 0 THEN "^" ELSE " "
Down(self) ==
    IF self.current_start_line + self.height < Len(self.data) THEN "v" ELSE " "

_redraw(self) ==
    IF self.current_start_line + self.height < 0
       \/ self.current_start_line > Len(self.data)
    THEN Nothing
    ELSE RedrawLoop(self, 0, Up(self), Down(self))

----------------------------------------------------------------------------
(* The display the bytes reach.  The controller latches the upper four     *)
(* bits when Enable falls, pairs two nibbles to a byte, takes a byte with  *)
(* RS = 0 as a command and writes a byte with RS = 1 to the memory its     *)
(* address counter points to.  `ac` is the display-memory address, or -1   *)
(* while the counter points into the character generator memory.  Of the   *)
(* display memory the model keeps the visible cells: row r holds the       *)
(* character codes at the addresses line_addresses[r] ..                   *)
(* line_addresses[r] + width - 1.  Enable is bit 2, R/W bit 1 and RS bit 0 *)
(* of a byte on the bus.                                                   *)

\* the codes of a text
Codes(text) == [i \in 1..Len(text) |-> Ascii(text[i])]

BlankRows(height, width) == [r \in 1..height |-> Codes(Spaces(width))]

\* rows of which no cell has been written: -1 stands for whatever the cell held
StaleRows(height, width) == [r \in 1..height |-> [i \in 1..width |-> -1]]

\* the visible row (from 1) that holds address a, 0 when none does
RowOf(a, height, width) ==
    IF \E r \in 1..height : line_addresses[r] <= a /\ a < line_addresses[r] + width
    THEN CHOOSE r \in 1..height : line_addresses[r] <= a /\ a < line_addresses[r] + width
    ELSE 0

\* the controller takes one byte
Execute(c, rs, byte, height, width) ==
    IF rs = 1
    THEN IF c.ac < 0 THEN c
         ELSE LET r == RowOf(c.ac, height, width)
              IN  IF r = 0 THEN [c EXCEPT !.ac = c.ac + 1]
                  ELSE [c EXCEPT !.ac = c.ac + 1,
                                 !.dd[r][c.ac - line_addresses[r] + 1] = byte]
    ELSE IF byte >= SET_DDRAM_ADDRESS THEN [c EXCEPT !.ac = byte - SET_DDRAM_ADDRESS]
    ELSE IF byte >= SET_CGRAM_ADDRESS THEN [c EXCEPT !.ac = -1]
    ELSE IF byte = CLEAR_DISPLAY THEN [c EXCEPT !.ac = 0, !.dd = BlankRows(height, width)]
    ELSE c

\* the controller sees one event: `en` is the byte written with Enable
\* high (-1: Enable is low), `hi` the first nibble of a byte (-1: none yet)
Latch(c, e, height, width) ==
    IF e.k # "write" THEN c
    ELSE IF (e.v \div 4) % 2 = 1 THEN [c EXCEPT !.en = e.v]
    ELSE IF c.en < 0 THEN c
    ELSE IF (c.en \div 2) % 2 = 1 THEN [c EXCEPT !.en = -1]
    ELSE LET nibble == c.en \div 16
             rs == c.en % 2
         IN  IF c.hi < 0 THEN [c EXCEPT !.en = -1, !.hi = nibble]
             ELSE Execute([c EXCEPT !.en = -1, !.hi = -1], rs,
                          16 * c.hi + nibble, height, width)

\* the controller sees the events lo .. hi of ev, in order
RECURSIVE Feed(_, _, _, _, _, _)
Feed(c, ev, lo, hi, height, width) ==
    IF lo > hi THEN c
    ELSE IF lo = hi THEN Latch(c, ev[lo], height, width)
    ELSE LET mid == (lo + hi) \div 2
             half == Feed(c, ev, lo, mid, height, width)
         IN  \* (the test has TLC evaluate the first half first)
             IF half.ac < -1 THEN half
             ELSE Feed(half, ev, mid + 1, hi, height, width)

\* the visible rows after the events ev, from the rows dd
Display(dd, ev, height, width) ==
    Feed([dd |-> dd, ac |-> -1, hi |-> -1, en |-> -1], ev, 1, Len(ev), height, width).dd

\* the address counter points into the character generator memory after the
\* events ev, given whether it did before them: only the bytes of the
\* instruction register move it from one memory to the other
InCgram(before, ev) ==
    LET instr == SelectSeq(ev, LAMBDA e : e.k = "write" /\ e.v % 2 = INSTRUCTION_REGISTER)
    IN  IF instr = << >> THEN before
        ELSE Feed([dd |-> << >>, ac |-> IF before THEN -1 ELSE 0,
                   hi |-> -1, en |-> -1], instr, 1, Len(instr), 0, 0).ac < 0

\* what the last operation drew: the code it left in each visible cell, -1
\* in the cells it did not write
Drawn == Display(StaleRows(_display_height, _display_width), io,
                 _display_height, _display_width)

----------------------------------------------------------------------------
(* The list operations of UserList (collections) on which LCD builds. *)

\* s < t for Python strings
RECURSIVE StrLess(_, _)
StrLess(s, t) ==
    IF Len(t) = 0 THEN FALSE
    ELSE IF Len(s) = 0 THEN TRUE
    ELSE IF Ascii(Head(s)) # Ascii(Head(t)) THEN Ascii(Head(s)) < Ascii(Head(t))
    ELSE StrLess(Tail(s), Tail(t))

\* list.insert(i, item): the index is clamped to the list
ListInsert(l, i, item) ==
    LET n == Len(l)
        j == IF i < 0 THEN (IF i + n < 0 THEN 0 ELSE i + n)
             ELSE (IF i > n THEN n ELSE i)
    IN  SubSeq(l, 1, j) \o <<item>> \o SubSeq(l, j + 1, n)

\* the position (from 0) an index of Python means, -1 when out of range
Index(l, i) ==
    LET j == IF i < 0 THEN i + Len(l) ELSE i
    IN  IF 0 <= j /\ j < Len(l) THEN j ELSE -1

\* the list without the element at position j (from 0)
Without(l, j) == SubSeq(l, 1, j) \o SubSeq(l, j + 2, Len(l))

\* del l[lo:hi]
DelSlice(l, lo, hi) ==
    LET n == Len(l)
        a == Len(SliceTo(l, lo))
        b == Len(SliceTo(l, hi))
    IN  IF b <= a THEN l ELSE SubSeq(l, 1, a) \o SubSeq(l, b + 1, n)

\* list.sort(): stable, by insertion of each element after the ones
\* that are not greater
RECURSIVE InsertSorted(_, _, _)
InsertSorted(sorted, item, reverse) ==
    IF Len(sorted) = 0 THEN <<item>>
    ELSE LET before == IF reverse THEN ~StrLess(Head(sorted), item)
                       ELSE ~StrLess(item, Head(sorted))
         IN  IF before THEN <<Head(sorted)>> \o InsertSorted(Tail(sorted), item, reverse)
             ELSE <<item>> \o sorted

RECURSIVE SortFrom(_, _, _, _)
SortFrom(l, i, sorted, reverse) ==
    IF i > Len(l) THEN sorted
    ELSE SortFrom(l, i + 1, InsertSorted(sorted, l[i], reverse), reverse)

ListSort(l, reverse) == SortFrom(l, 1, << >>, reverse)

ListReverse(l) == [i \in 1..Len(l) |-> l[Len(l) + 1 - i]]

RECURSIVE Repeat(_, _)
Repeat(l, n) == IF n <= 0 THEN << >> ELSE l \o Repeat(l, n - 1)

----------------------------------------------------------------------------
(* The inputs the model draws from. *)

Short == <<"c", "a">>
Long == [i \in 1..(MaxWidth + 2) |-> Letters[i]]
Items == {Short, Long}

\* a list of n texts
Lines(n) == [i \in 1..n |-> IF i % 2 = 1 THEN Long ELSE Short]

Widths == {MaxWidth}
\* the heights of the display the data model supports
Heights == {1, 2, 4}
\* the longest buffer on a display of `height` rows
MaxLen(height) == height + MaxExtra
InitLists(height) == {<< >>, Lines(MaxLen(height))}
\* a list of n short texts
ShortLines(n) == [i \in 1..n |-> Short]
ExtendLists == {<< >>, <<Short, Long>>}
AssignLists(height) == {<< >>, <<Short>>, Lines(MaxLen(height))}
\* indices: the first, the second and the last element, and one out of range
IndexArgs == {-1, 0, 1, 4 + MaxExtra}
SliceArgs == {<<0, 2>>, <<1, 4 + MaxExtra>>, <<0, 4 + MaxExtra>>}
StartLines(height) == (-MaxLen(height))..(MaxLen(height) + 1)
Bitmaps == {<<4, 14, 31, 0, 4, 14, 31, 0>>, <<1, 2, 3>>}
Slots == {0, 7, 8}

----------------------------------------------------------------------------
(* A bus write that fails.  SMBus.write_byte raises OSError and nothing    *)
(* catches it: the operation ends at that call.  failAt = 0: no write      *)
(* fails; failAt = k: the k-th _i2c_write call of the operation fails.     *)

\* None, which a call without a return statement returns: no text (a
\* text is a sequence of characters)
None == <<"None">>

NumWrites(ev) == Cardinality({p \in 1..Len(ev) : ev[p].k = "write"})

\* a failed bus write that raises nothing: the operation goes on
BusFailure_swallowed(out, failAt) ==
    IF failAt = 0 \/ failAt > NumWrites(out.ev) THEN out
    ELSE LET p == CHOOSE q \in 1..Len(out.ev) :
                      /\ out.ev[q].k = "write"
                      /\ NumWrites(SubSeq(out.ev, 1, q)) = failAt
         IN  Out([out.ev EXCEPT ![p] = [k |-> "fail", v |-> out.ev[p].v]], out.exc)

BusFailure(out, failAt) ==
    IF failAt = 0 \/ failAt > NumWrites(out.ev) THEN out
    ELSE LET p == CHOOSE q \in 1..Len(out.ev) :
                      /\ out.ev[q].k = "write"
                      /\ NumWrites(SubSeq(out.ev, 1, q)) = failAt
         IN  Out(SubSeq(out.ev, 1, p - 1) \o <<[k |-> "fail", v |-> out.ev[p].v]>>,
                 "OSError")

\* the state after an operation that left the object as `self`, with
\* outcome `out`, and returns `ret` when nothing is raised
CommitCall(op, args, redrawn, self, out, ret, failAt) ==
    LET o == BusFailure(out, failAt)
    IN  /\ (failAt > 0) => (failAt <= NumWrites(out.ev))
        /\ data' = self.data
        /\ _display_width' = self.width
        /\ _display_height' = self.height
        /\ _backlight' = self.backlight
        /\ _display_on' = self.display_on
        /\ _cursor_on' = self.cursor_on
        /\ _blink_on' = self.blink_on
        /\ _truncate_mode' = self.truncate_mode
        /\ _scroll_bar' = self.scroll_bar
        /\ _current_start_line' = self.current_start_line
        /\ io' = o.ev
        /\ lastOp' = op
        /\ lastArgs' = args
        /\ cgram' = InCgram(cgram, io)
        /\ redraws' = redrawn
        /\ again' = (op = "show" /\ lastOp = "show"
                   /\ self.current_start_line = _current_start_line)
        /\ raised' = o.exc
        /\ retval' = IF o.exc = "none" THEN ret ELSE None
        /\ UNCHANGED tvars

Commit(op, redrawn, self, out, ret, failAt) ==
    CommitCall(op, << >>, redrawn, self, out, ret, failAt)

----------------------------------------------------------------------------
(* Construction. *)

_function_set(self) ==
    LET SET_FUNCTION_SET == 32
        DL_4_BIT_MODE == 0
        N_1_LINE == 0
        N_2_LINES == 8
        F_5x8 == 0
        command0 == BitOr(SET_FUNCTION_SET, BitOr(DL_4_BIT_MODE, F_5x8))
        command == IF self.height = 1 THEN BitOr(command0, N_1_LINE)
                   ELSE BitOr(command0, N_2_LINES)
    IN  Then(_lcd_write_byte(self, 0, 18), _write_command(self, command))

\* _set_display_mode leaving the blink flag out of the command
_set_display_mode_no_blink(self) ==
    LET m0 == SET_DISPLAY_MODE
        m1 == IF self.display_on THEN BitOr(m0, DISPLAY_ON) ELSE m0
        m2 == IF self.cursor_on THEN BitOr(m1, CURSOR_ON) ELSE m1
    IN  _write_command(self, m2)

_set_display_mode(self) ==
    LET m0 == SET_DISPLAY_MODE
        m1 == IF self.display_on THEN BitOr(m0, DISPLAY_ON) ELSE m0
        m2 == IF self.cursor_on THEN BitOr(m1, CURSOR_ON) ELSE m1
        m3 == IF self.blink_on THEN BitOr(m2, BLINK_ON) ELSE m2
    IN  _write_command(self, m3)

_clear_display(self) ==
    Then(_write_command(self, CLEAR_DISPLAY), sleep(500))

\* the attributes __init__ sets
NewLCD(iterable, width, height) ==
    [data |-> iterable, width |-> width, height |-> height,
     backlight |-> TRUE, display_on |-> TRUE, cursor_on |-> FALSE,
     blink_on |-> FALSE, truncate_mode |-> "TRUNCATE",
     scroll_bar |-> Len(iterable) > height, current_start_line |-> 0]

\* what __init__ does after setting the attributes
Configure(self) ==
    Then(sleep(40),
    Then(_function_set(self),
    Then(_set_display_mode(self),
    Then(_clear_display(self), _redraw(self)))))

InitLCD(iterable, width, height) ==
    LET self == NewLCD(iterable, width, height)
        out == Configure(self)
    IN  /\ data = self.data
        /\ _display_width = self.width
        /\ _display_height = self.height
        /\ _backlight = self.backlight
        /\ _display_on = self.display_on
        /\ _cursor_on = self.cursor_on
        /\ _blink_on = self.blink_on
        /\ _truncate_mode = self.truncate_mode
        /\ _scroll_bar = self.scroll_bar
        /\ _current_start_line = self.current_start_line
        /\ io = out.ev
        /\ lastOp = "__init__"
        /\ lastArgs = << >>
        /\ cgram = FALSE
        /\ redraws = 1
        /\ again = FALSE
        /\ raised = out.exc
        /\ retval = None

TIdle ==
    /\ t_text = << >>
    /\ t_width = 0
    /\ t_mode = "TRUNCATE"
    /\ t_result = [text |-> << >>, exc |-> "none"]
    /\ t_pc = "idle"

\* LCD(iterable, width, height) on a display of one of the heights
InitOn(heights) ==
    /\ \E width \in Widths, height \in heights :
           \E iterable \in InitLists(height) : InitLCD(iterable, width, height)
    /\ TIdle

Init == InitOn({1, 2})

----------------------------------------------------------------------------
(* The list operations LCD overrides: the operation of the base class,     *)
(* then _redraw.  An exception of the base class ends the call before the  *)
(* redraw.                                                                 *)

append(item, failAt) ==
    /\ Len(data) < MaxLen(_display_height)
    /\ LET self == [Self EXCEPT !.data = Append(data, item)]
       IN  Commit("mutation", 1, self, _redraw(self), None, failAt)

extend(other, failAt) ==
    /\ Len(data) + Len(other) <= MaxLen(_display_height)
    /\ LET self == [Self EXCEPT !.data = data \o other]
       IN  Commit("mutation", 1, self, _redraw(self), None, failAt)

insert(i, item, failAt) ==
    /\ Len(data) < MaxLen(_display_height)
    /\ LET self == [Self EXCEPT !.data = ListInsert(data, i, item)]
       IN  Commit("mutation", 1, self, _redraw(self), None, failAt)

remove(item, failAt) ==
    IF \E j \in 1..Len(data) : data[j] = item
    THEN LET j == CHOOSE j \in 1..Len(data) :
                      data[j] = item /\ \A m \in 1..(j - 1) : data[m] # item
             self == [Self EXCEPT !.data = Without(data, j - 1)]
         IN  Commit("mutation", 1, self, _redraw(self), None, failAt)
    ELSE Commit("mutation", 0, Self, Raise("ValueError"), None, failAt)

pop(i, failAt) ==
    IF Index(data, i) >= 0
    THEN LET self == [Self EXCEPT !.data = Without(data, Index(data, i))]
         IN  CommitCall("pop", <<i>>, 1, self, _redraw(self), None, failAt)
    ELSE CommitCall("pop", <<i>>, 0, Self, Raise("IndexError"), None, failAt)

sort(reverse, failAt) ==
    LET self == [Self EXCEPT !.data = ListSort(data, reverse)]
    IN  Commit("mutation", 1, self, _redraw(self), None, failAt)

reverse(failAt) ==
    LET self == [Self EXCEPT !.data = ListReverse(data)]
    IN  Commit("mutation", 1, self, _redraw(self), None, failAt)

__setitem__(i, item, failAt) ==
    IF Index(data, i) >= 0
    THEN LET self == [Self EXCEPT !.data[Index(data, i) + 1] = item]
         IN  Commit("mutation", 1, self, _redraw(self), None, failAt)
    ELSE Commit("mutation", 0, Self, Raise("IndexError"), None, failAt)

\* del lcd[i]
__delitem__(i, failAt) ==
    IF Index(data, i) >= 0
    THEN LET self == [Self EXCEPT !.data = Without(data, Index(data, i))]
         IN  Commit("mutation", 1, self, _redraw(self), None, failAt)
    ELSE Commit("mutation", 0, Self, Raise("IndexError"), None, failAt)

\* del lcd[lo:hi]
delslice(lo, hi, failAt) ==
    LET self == [Self EXCEPT !.data = DelSlice(data, lo, hi)]
    IN  Commit("mutation", 1, self, _redraw(self), None, failAt)

----------------------------------------------------------------------------
(* The list operations LCD inherits from UserList without overriding. *)

clear ==
    Commit("clear", 0, [Self EXCEPT !.data = << >>], Nothing, None, 0)

__iadd__(other) ==
    /\ Len(data) + Len(other) <= MaxLen(_display_height)
    /\ Commit("__iadd__", 0, [Self EXCEPT !.data = data \o other], Nothing, "self", 0)

__imul__(n) ==
    /\ Len(data) * n <= MaxLen(_display_height)
    /\ Commit("__imul__", 0, [Self EXCEPT !.data = Repeat(data, n)], Nothing, "self", 0)

----------------------------------------------------------------------------
(* The user level functions. *)

\* the loop of define_custom_character writing the row before its address
RECURSIVE DefineRows_data_first(_, _, _, _)
DefineRows_data_first(self, code, bitmap, row) ==
    IF row >= Len(bitmap) THEN Nothing
    ELSE LET address == BitOr(code * 8, row)
         IN  Then(_write_data(self, bitmap[row + 1]),
             Then(_write_command(self, BitOr(SET_CGRAM_ADDRESS, address)),
                  DefineRows_data_first(self, code, bitmap, row + 1)))

RECURSIVE DefineRows(_, _, _, _)
DefineRows(self, code, bitmap, row) ==
    IF row >= Len(bitmap) THEN Nothing
    ELSE LET address == BitOr(code * 8, row)
         IN  Then(_write_command(self, BitOr(SET_CGRAM_ADDRESS, address)),
             Then(_write_data(self, bitmap[row + 1]),
                  DefineRows(self, code, bitmap, row + 1)))

\* define_custom_character without the tests of its arguments
DefineCharacter_unchecked(self, code, bitmap) ==
    DefineRows(self, code, bitmap, 0)

\* the body of define_custom_character
DefineCharacter(self, code, bitmap) ==
    IF ~(0 <= code /\ code < 8) THEN Raise("ValueError")
    ELSE IF Len(bitmap) # 8 THEN Raise("ValueError")
    ELSE DefineRows(self, code, bitmap, 0)

define_custom_character(code, bitmap, failAt) ==
    CommitCall("define_custom_character", <<code, bitmap>>, 0, Self,
               DefineCharacter(Self, code, bitmap), None, failAt)

\* a call of _set_display_address on the object
set_display_address(line, position, failAt) ==
    CommitCall("_set_display_address", <<line, position>>, 0, Self,
               _set_display_address(Self, line, position), None, failAt)

display_on(on, failAt) ==
    LET self == [Self EXCEPT !.display_on = on]
    IN  Commit("display_on", 0, self, _set_display_mode(self), None, failAt)

set_cursor(style, failAt) ==
    LET self == IF style = "NONE"
                    THEN [Self EXCEPT !.cursor_on = FALSE, !.blink_on = FALSE]
                ELSE IF style = "BLINK"
                    THEN [Self EXCEPT !.cursor_on = FALSE, !.blink_on = TRUE]
                ELSE IF style = "UNDERSCORE"
                    THEN [Self EXCEPT !.cursor_on = TRUE, !.blink_on = FALSE]
                ELSE Self
    IN  Commit("set_cursor", 0, self, _set_display_mode(self), None, failAt)

backlight_on(on, failAt) ==
    LET self == [Self EXCEPT !.backlight = on]
    IN  Commit("backlight_on", 0, self, _write_command(self, 0), None, failAt)

\* show without the comparison with the current start line
show_always(start_line, failAt) ==
    LET self == [Self EXCEPT !.current_start_line = start_line]
    IN  Commit("show", 1, self, _redraw(self), None, failAt)

show(start_line, failAt) ==
    IF _current_start_line = start_line
    THEN Commit("show", 0, Self, Nothing, None, failAt)
    ELSE LET self == [Self EXCEPT !.current_start_line = start_line]
         IN  Commit("show", 1, self, _redraw(self), None, failAt)

set_truncate_mode(mode) ==
    IF _truncate_mode = "SCROLL"
    THEN CommitCall("set_truncate_mode", <<mode>>, 0, Self,
                    Raise("NotImplementedError"), None, 0)
    ELSE CommitCall("set_truncate_mode", <<mode>>, 0,
                    [Self EXCEPT !.truncate_mode = mode], Nothing, None, 0)

assign(text, failAt) ==
    LET self == [Self EXCEPT !.data = text, !.scroll_bar = Len(text) > _display_height]
    IN  Commit("assign", 1, self, _redraw(self), None, failAt)

----------------------------------------------------------------------------
(* The specification: any sequence of calls on one LCD object, no bus      *)
(* write failing.                                                          *)

\* the list operations LCD overrides, and assign
Mutate(failAt) ==
    \/ \E item \in Items : append(item, failAt)
    \/ \E other \in ExtendLists : extend(other, failAt)
    \/ \E i \in IndexArgs, item \in Items : insert(i, item, failAt)
    \/ \E item \in Items : remove(item, failAt)
    \/ \E i \in IndexArgs : pop(i, failAt)
    \/ \E r \in BOOLEAN : sort(r, failAt)
    \/ reverse(failAt)
    \/ \E i \in IndexArgs, item \in Items : __setitem__(i, item, failAt)
    \/ \E i \in IndexArgs : __delitem__(i, failAt)
    \/ \E sl \in SliceArgs : delslice(sl[1], sl[2], failAt)
    \/ \E text \in AssignLists(_display_height) : assign(text, failAt)

Inherited ==
    \/ clear
    \/ \E other \in ExtendLists : __iadd__(other)
    \/ \E n \in 0..2 : __imul__(n)

Control(failAt) ==
    \/ \E code \in Slots, bitmap \in Bitmaps : define_custom_character(code, bitmap, failAt)
    \/ \E on \in BOOLEAN : display_on(on, failAt)
    \/ \E style \in Cursor : set_cursor(style, failAt)
    \/ \E on \in BOOLEAN : backlight_on(on, failAt)

Next ==
    \/ Mutate(0)
    \/ \E n \in StartLines(_display_height) : show(n, 0)
    \/ \E mode \in TruncateMode : set_truncate_mode(mode)

Spec == Init /\ [][Next]_vars

----------------------------------------------------------------------------
(* Scrolling through a buffer of short lines on a display of every         *)
(* supported height.                                                       *)

InitScroll == InitOn(Heights)

NextScroll ==
    \/ append(Short, 0)
    \/ \E i \in {-1, 0} : pop(i, 0)
    \/ \E n \in {0, 1, 2} : assign(ShortLines(_display_height + n - 1), 0)
    \/ \E n \in StartLines(_display_height) : show(n, 0)

SpecScroll == InitScroll /\ [][NextScroll]_vars

----------------------------------------------------------------------------
(* The control operations, on a display of one row: the backlight, the     *)
(* display mode and the custom characters between redraws.                 *)

InitControl == InitOn({1})

NextControl ==
    \/ Control(0)
    \/ \E item \in Items : append(item, 0)
    \/ pop(-1, 0)
    \/ \E n \in {0, 1} : show(n, 0)

SpecControl == InitControl /\ [][NextControl]_vars

----------------------------------------------------------------------------
(* _truncate as a function of the text, the width and the truncate mode:   *)
(* calls of _truncate on texts of every length up to MaxText, between      *)
(* calls of set_truncate_mode.                                             *)

Texts == {[i \in 1..n |-> Letters[i]] : n \in 0..MaxText}

CallTruncate(text, width) ==
    /\ t_text' = text
    /\ t_width' = width
    /\ t_mode' = _truncate_mode
    /\ t_result' = _truncate(Self, text, width)
    /\ t_pc' = "done"
    /\ UNCHANGED lcdvars

InitTruncate == InitOn({1})

NextTruncate ==
    \/ \E text \in Texts, width \in 1..MaxWidth : CallTruncate(text, width)
    \/ \E mode \in TruncateMode : set_truncate_mode(mode)

SpecTruncate == InitTruncate /\ [][NextTruncate]_vars

-----------------------------------------------------------------------------
(* What the claims speak of. *)

\* the operations that change the buffer and redraw
Mutations == {"mutation", "pop", "assign"}

\* the last operation was a mutation of the buffer, and it returned normally
Mutated == lastOp \in Mutations /\ raised = "none"

\* the character codes the rows of the display show once every row of
\* self is drawn: the text of each row, cut at the width by _print_at
Rendering(self) ==
    [r \in 1..self.height |->
        Codes(SliceTo(LineText(self, r - 1, Up(self), Down(self)).text, self.width))]

-----------------------------------------------------------------------------
(* Claims on any sequence of calls (Spec). *)

\* C1: after construction and after every mutation of the buffer (append,
\* extend, insert, remove, pop, sort, reverse, item assignment, item and
\* slice deletion, assign) _scroll_bar equals (len(data) > height), and the
\* redraw of that mutation is the redraw drawn with the recomputed flag.
C1_FlagRecomputed ==
    (lastOp = "__init__" \/ Mutated) =>
        /\ _scroll_bar = (Len(data) > _display_height)
        /\ lastOp # "__init__" =>
               io = _redraw([Self EXCEPT !.scroll_bar = Len(data) > _display_height]).ev

\* C2: when a mutation returns normally, every row of the display was written
\* during the call and the display shows the rendering of the mutated buffer
\* at the current start line, whatever start line show set before.
C2_MutationRedrawsAll ==
    Mutated => Drawn = Rendering(Self)

\* C3: show(n) with n other than the current start line, negative and beyond
\* the buffer included, sets the start line to n and rewrites every row, the
\* rows outside the buffer as the marker (if any) followed by spaces.
C3_ShowRedrawsAll ==
    [][(lastOp' = "show" /\ raised' = "none"
        /\ _current_start_line' # _current_start_line)
       => Drawn' = Rendering(Self')]_vars

\* the attributes of the LCD object
object == <<data, _display_width, _display_height, _backlight, _display_on,
            _cursor_on, _blink_on, _truncate_mode, _scroll_bar, _current_start_line>>

\* the second of two show calls with one start line wrote nothing to the bus
\* and changed no attribute
SecondShowIdle ==
    (lastOp' = "show" /\ again') => (io' = << >> /\ UNCHANGED object)

\* C4 (as claimed): from any reachable state and for any n, two consecutive
\* show(n) calls perform exactly one redraw in total, the second call writing
\* nothing to the bus and changing no state.
C4_ExactlyOneRedraw ==
    [][/\ SecondShowIdle
       /\ (lastOp' = "show" /\ again' /\ ~again) => redraws + redraws' = 1]_vars

\* C4 (amended): two consecutive show(n) calls perform one redraw in total
\* when n differs from the start line before the first call and none when n
\* is that start line; in both cases the second call writes nothing to the
\* bus and changes no state.
C4_SecondShowIdle ==
    [][/\ SecondShowIdle
       /\ (lastOp' = "show" /\ again') => redraws' = 0
       /\ (lastOp' = "show" /\ ~again') =>
              IF _current_start_line' # _current_start_line
              THEN redraws' = 1 /\ (raised' = "none" => io' = _redraw(Self').ev)
              ELSE redraws' = 0 /\ io' = << >>]_vars

\* show(n) was called twice in a row on a buffer with lines, n within the
\* range _redraw draws
C4_Witness ==
    /\ lastOp = "show" /\ again /\ io = << >>
    /\ Len(data) > 0
    /\ 0 < _current_start_line /\ _current_start_line < Len(data)

-----------------------------------------------------------------------------
(* Claims on the scroll bar, on displays of 1, 2 and 4 rows (SpecScroll). *)

\* the last operation redrew the display and returned normally
Redrawn == redraws = 1 /\ raised = "none" /\ io # << >>

\* C5: in every redraw with the buffer longer than the display, on 1, 2 and
\* 4 rows, the first column of row 0 shows the up marker exactly when the
\* start line is above 0, the first column of the last row shows the down
\* marker exactly when start line + height < len(data), and the first column
\* of the rows between is blank; with a buffer that fits, the rows start
\* with the text and no marker column.
C5_Markers ==
    Redrawn =>
        IF Len(data) > _display_height
        THEN /\ (Drawn[1][1] = Ascii("^")) <=> (_current_start_line > 0)
             /\ (Drawn[_display_height][1] = Ascii("v"))
                    <=> (_current_start_line + _display_height < Len(data))
             /\ \A r \in 2..(_display_height - 1) : Drawn[r][1] = Ascii(" ")
        ELSE Drawn = Rendering([Self EXCEPT !.scroll_bar = FALSE])

-----------------------------------------------------------------------------
(* Claims on _truncate (SpecTruncate). *)

\* the truncation modes _truncate implements
Implemented == {"TRUNCATE", "ELLIPSIS_END", "ELLIPSIS_MIDDLE"}

\* C6: for every text no longer than width and every implemented mode,
\* _truncate returns the text followed by spaces up to exactly width
\* characters; in mode TRUNCATE a longer text yields its first width
\* characters.
C6_PadAndCut ==
    t_pc = "done" =>
        /\ (Len(t_text) <= t_width /\ t_mode \in Implemented) =>
               /\ t_result.exc = "none"
               /\ Len(t_result.text) = t_width
               /\ \A i \in 1..t_width :
                      t_result.text[i] = IF i <= Len(t_text) THEN t_text[i] ELSE " "
        /\ (Len(t_text) > t_width /\ t_mode = "TRUNCATE") =>
               /\ t_result.exc = "none"
               /\ t_result.text = SubSeq(t_text, 1, t_width)

\* _truncate padded a shorter text in one of the ellipsis modes
C6_Witness ==
    /\ t_pc = "done" /\ t_mode = "ELLIPSIS_MIDDLE"
    /\ 0 < Len(t_text) /\ Len(t_text) < t_width
    /\ t_result.text = t_text \o Spaces(t_width - Len(t_text))

\* C7: in mode ELLIPSIS_END, for every text longer than width, the result is
\* exactly width characters long, ends with the two characters of the
\* ellipsis, and starts with the first width - 2 characters of the text.
C7_EllipsisEnd ==
    (t_pc = "done" /\ t_mode = "ELLIPSIS_END" /\ Len(t_text) > t_width) =>
        /\ t_result.exc = "none"
        /\ Len(t_result.text) = t_width
        /\ t_width >= 2 =>
               t_result.text = SubSeq(t_text, 1, t_width - 2) \o <<".", ".">>

\* C8: in mode ELLIPSIS_MIDDLE, for every width from 1 and every text, the
\* result is exactly width characters long; for a text longer than width it
\* is a head, the ellipsis and a tail, the head a prefix of the text and
\* the tail a suffix that does not overlap the head.
C8_EllipsisMiddle ==
    (t_pc = "done" /\ t_mode = "ELLIPSIS_MIDDLE") =>
        /\ t_result.exc = "none"
        /\ Len(t_result.text) = t_width
        /\ Len(t_text) > t_width =>
               \E h \in 0..t_width, t \in 0..t_width :
                   /\ h + t <= Len(t_text)
                   /\ t_result.text = SubSeq(t_text, 1, h) \o <<".", ".">>
                          \o SubSeq(t_text, Len(t_text) - t + 1, Len(t_text))

-----------------------------------------------------------------------------
(* The mode SCROLL (Spec). *)

\* C9: once set_truncate_mode(SCROLL) is called, NotImplementedError is
\* raised by that call or at the latest by the first redraw in that mode: no
\* redraw completes normally while _truncate_mode is SCROLL, whatever the
\* lengths of the lines.
C9_ScrollNeverDraws ==
    ~(_truncate_mode = "SCROLL" /\ redraws = 1 /\ raised = "none")

-----------------------------------------------------------------------------
(* The backlight bit (SpecControl). *)

\* bit 3 of a byte on the bus
BacklightBit(v) == (v \div BACKLIGHT_ON) % 2

\* the events with the backlight bit of every byte cleared
Unlit(ev) ==
    [i \in 1..Len(ev) |->
        IF ev[i].k = "write"
        THEN [ev[i] EXCEPT !.v = @ - BACKLIGHT_ON * BacklightBit(@)]
        ELSE ev[i]]

\* the LCD object with the backlight in the other state
Flipped == [Self EXCEPT !.backlight = ~_backlight]

\* the last operation, run with the backlight in the other state, writes the
\* bytes it wrote, the backlight bit aside
OtherBitsKept ==
    CASE lastOp = "__init__" ->
             Unlit(io) = Unlit(Configure(Flipped).ev)
      [] lastOp \in {"display_on", "set_cursor"} ->
             Unlit(io) = Unlit(_set_display_mode(Flipped).ev)
      [] lastOp = "backlight_on" ->
             Unlit(io) = Unlit(_write_command(Flipped, 0).ev)
      [] lastOp = "define_custom_character" ->
             \E code \in Slots, bitmap \in Bitmaps :
                 /\ io = DefineCharacter(Self, code, bitmap).ev
                 /\ Unlit(io) = Unlit(DefineCharacter(Flipped, code, bitmap).ev)
      [] OTHER ->
             Unlit(io) = IF redraws = 1 THEN Unlit(_redraw(Flipped).ev) ELSE << >>

\* C10: whatever backlight_on calls come between the other operations, every
\* byte written to the bus has bit 3 set exactly when _backlight is on at
\* the time of the write, and the state of the backlight changes no other
\* bit of the bytes an operation writes.
C10_BacklightBit ==
    /\ \A i \in 1..Len(io) :
           io[i].k = "write" => ((BacklightBit(io[i].v) = 1) <=> _backlight)
    /\ OtherBitsKept

\* a redraw wrote its bytes with the backlight off
C10_Witness ==
    /\ ~_backlight /\ lastOp = "mutation" /\ redraws = 1
    /\ Len(io) > 0
    /\ \A i \in 1..Len(io) : BacklightBit(io[i].v) = 0

-----------------------------------------------------------------------------
(* Addresses and arguments out of range (SpecAddress): calls of            *)
(* _set_display_address and define_custom_character on displays of 1 to 4  *)
(* rows, between calls that change the state of the object.                *)

\* lines and positions, the first ones out of range on either side included
LineArgs == -1..4
PositionArgs == -1..MaxWidth

InitAddress == InitOn(1..4)

NextAddress ==
    \/ \E line \in LineArgs, position \in PositionArgs :
           set_display_address(line, position, 0)
    \/ \E code \in Slots, bitmap \in Bitmaps : define_custom_character(code, bitmap, 0)
    \/ \E on \in BOOLEAN : backlight_on(on, 0)
    \/ \E n \in {0, 1} : show(n, 0)

SpecAddress == InitAddress /\ [][NextAddress]_vars

\* the bytes the controller takes from the events ev, each with its register
\* select bit, in order: the two nibbles latched by the falling edges of
\* Enable, paired
BytesOf(ev) ==
    LET w == SelectSeq(ev, LAMBDA e : e.k = "write")
        pulses == {i \in 1..(Len(w) - 1) :
                      (w[i].v \div ENABLE) % 2 = 1 /\ (w[i + 1].v \div ENABLE) % 2 = 0}
        nth(n) == CHOOSE i \in pulses : Cardinality({j \in pulses : j < i}) = n - 1
    IN  [n \in 1..(Cardinality(pulses) \div 2) |->
            [rs |-> w[nth(2 * n - 1)].v % 2,
             byte |-> 16 * (w[nth(2 * n - 1)].v \div 16) + (w[nth(2 * n)].v \div 16)]]

\* the last operation was a call of _set_display_address with a line and a
\* position on the display
AddressSet ==
    /\ lastOp = "_set_display_address"
    /\ 0 <= lastArgs[1] /\ lastArgs[1] < _display_height
    /\ 0 <= lastArgs[2] /\ lastArgs[2] < _display_width

\* C11: for every row in [0, height) and column in [0, width), height at
\* most 4, _set_display_address(row, column) writes exactly one command,
\* SET_DDRAM_ADDRESS | (AddressMap[row] + column) with AddressMap =
\* [0x00, 0x40, 0x14, 0x54], and the next data byte written lands in the
\* display memory at that address: the cell (row, column) of the display.
C11_AddressCommand ==
    AddressSet =>
        LET row == lastArgs[1]
            column == lastArgs[2]
            AddressMap == <<0, 64, 20, 84>>
            next == Display(StaleRows(_display_height, _display_width),
                            io \o _write_data(Self, Ascii("a")).ev,
                            _display_height, _display_width)
        IN  /\ raised = "none"
            /\ BytesOf(io) = <<[rs |-> 0, byte |-> 128 + AddressMap[row + 1] + column]>>
            /\ \A r \in 1.._display_height, i \in 1.._display_width :
                   next[r][i] = IF r = row + 1 /\ i = column + 1 THEN Ascii("a") ELSE -1

\* the address of the last cell of the fourth row was set
C11_Witness ==
    /\ AddressSet /\ lastArgs = <<3, MaxWidth - 1>>
    /\ BytesOf(io) = <<[rs |-> 0, byte |-> 128 + 84 + MaxWidth - 1]>>

\* the call the step makes is a cursor move or a character definition with
\* an argument out of range
BadArguments ==
    \/ /\ lastOp' = "_set_display_address"
       /\ \/ ~(0 <= lastArgs'[1] /\ lastArgs'[1] < _display_height)
          \/ ~(0 <= lastArgs'[2] /\ lastArgs'[2] < _display_width)
    \/ /\ lastOp' = "define_custom_character"
       /\ \/ ~(lastArgs'[1] \in 0..7)
          \/ Len(lastArgs'[2]) # 8

\* C12: a cursor move with the row outside [0, height) or the column outside
\* [0, width), and define_custom_character with a slot outside 0..7 or a
\* bitmap of a length other than 8, raise ValueError before any bus write
\* and leave every attribute of the object as it was.
C12_RangeErrors ==
    [][BadArguments =>
          /\ raised' = "ValueError"
          /\ io' = << >>
          /\ UNCHANGED object]_vars

\* define_custom_character was refused slot 8, having written nothing
C12_Witness ==
    /\ lastOp = "define_custom_character" /\ lastArgs[1] = 8
    /\ raised = "ValueError" /\ io = << >>

-----------------------------------------------------------------------------
(* The list operations LCD inherits (SpecInherited): clear, += and *=      *)
(* between calls of the operations LCD overrides.                          *)

InitInherited == InitOn({1, 2})

NextInherited ==
    \/ Inherited
    \/ \E item \in Items : append(item, 0)
    \/ \E i \in {-1, 0} : pop(i, 0)
    \/ \E text \in AssignLists(_display_height) : assign(text, 0)
    \/ \E n \in {0, 1} : show(n, 0)

SpecInherited == InitInherited /\ [][NextInherited]_vars

\* the operations that change the buffer, the inherited ones included
BufferOps == Mutations \cup {"clear", "__iadd__", "__imul__"}

\* C13: every public operation that changes the buffer, the list operations
\* LCD inherits without overriding them (clear, +=, *=) included, redraws
\* the whole display before it returns.
C13_EveryMutationRedraws ==
    (lastOp \in BufferOps /\ raised = "none") =>
        /\ redraws = 1
        /\ Drawn = Rendering(Self)

-----------------------------------------------------------------------------
(* Failing bus writes (SpecFail): in a character definition, a switch of  *)
(* the display or the backlight, an append, a pop or a show, one of the    *)
(* first MaxFail bus writes may raise OSError (failAt = 0: none fails).    *)

InitFail == InitOn({1})

NextFail ==
    \E failAt \in 0..MaxFail :
        \/ \E code \in Slots, bitmap \in Bitmaps :
               define_custom_character(code, bitmap, failAt)
        \/ \E on \in BOOLEAN : display_on(on, failAt)
        \/ \E on \in BOOLEAN : backlight_on(on, failAt)
        \/ append(Short, failAt)
        \/ pop(-1, failAt)
        \/ \E n \in {0, 1} : show(n, failAt)

SpecFail == InitFail /\ [][NextFail]_vars

\* the events of the last operation had no bus write failed, as far as the
\* operations without arguments of their own go
Unfailed ==
    CASE lastOp = "display_on" -> _set_display_mode(Self).ev
      [] lastOp = "backlight_on" -> _write_command(Self, 0).ev
      [] lastOp = "define_custom_character" ->
             DefineCharacter(Self, lastArgs[1], lastArgs[2]).ev
      [] OTHER -> IF redraws = 1 THEN _redraw(Self).ev ELSE << >>

\* C14: when a bus write fails during an operation the caller gets the
\* exception of the bus, the operation makes no bus write after the failed
\* one, and it does not try the failed write again: the events of the
\* operation are those of the unfailed operation up to the failed write.
C14_FailureAborts ==
    LET failed == {p \in 1..Len(io) : io[p].k = "fail"}
    IN  /\ (failed # {}) <=> (raised = "OSError")
        /\ \A p \in failed :
               /\ p = Len(io)
               /\ p <= Len(Unfailed)
               /\ SubSeq(io, 1, p - 1) = SubSeq(Unfailed, 1, p - 1)
               /\ io[p].v = Unfailed[p].v

\* the second nibble of the first byte of a redraw failed
C14_Witness ==
    /\ lastOp = "mutation" /\ redraws = 1 /\ raised = "OSError"
    /\ Len(io) = 3 /\ io[3].k = "fail"

-----------------------------------------------------------------------------
(* The split of ELLIPSIS_MIDDLE (SpecTruncate). *)

\* C15: in mode ELLIPSIS_MIDDLE, for a text longer than the width w, the
\* budget w - 2 is split so that the head is the first ceil((w - 2) / 2)
\* characters of the text and the tail its last floor((w - 2) / 2)
\* characters, and the result is head + ellipsis + tail.
C15_MiddleSplit ==
    (t_pc = "done" /\ t_mode = "ELLIPSIS_MIDDLE" /\ Len(t_text) > t_width
     /\ t_width >= 2) =>
        LET budget == t_width - 2
            head == SubSeq(t_text, 1, (budget + 1) \div 2)
            tail == SubSeq(t_text, Len(t_text) - (budget \div 2) + 1, Len(t_text))
        IN  /\ t_result.exc = "none"
            /\ t_result.text = head \o <<".", ".">> \o tail

-----------------------------------------------------------------------------
(* The four bus writes of a byte (SpecControl). *)

\* the bytes of the bus writes among the events ev, in order
WritesOf(ev) ==
    LET w == SelectSeq(ev, LAMBDA e : e.k = "write")
    IN  [i \in 1..Len(w) |-> w[i].v]

\* the four bus writes of byte b to register R: bits 7..4 a nibble, bit 3
\* the backlight, bit 2 Enable, bit 1 read/write, bit 0 the register
FourWrites(b, R, backlight) ==
    LET hi == 16 * (b \div 16)
        lo == 16 * (b % 16)
        bl == IF backlight THEN 8 ELSE 0
    IN  <<hi + bl + 4 + R, hi + bl + R, lo + bl + 4 + R, lo + bl + R>>

\* the byte of the display mode command for the current flags
ModeByte ==
    8 + (IF _display_on THEN 4 ELSE 0) + (IF _cursor_on THEN 2 ELSE 0)
      + (IF _blink_on THEN 1 ELSE 0)

\* C16: every command or data byte b written to register R makes exactly
\* four bus writes, in this order: (b & 0xF0) | R | backlight with Enable
\* set, the same byte with Enable clear, ((b & 0x0F) << 4) | R | backlight
\* with Enable set, the same byte with Enable clear; read/write is 0 in
\* every byte, and the two writes of a pulse differ in Enable only.
C16_FourWrites ==
    LET w == WritesOf(io)
    IN  /\ Len(w) % 4 = 0
        /\ \A g \in 1..(Len(w) \div 4) :
               LET b == 16 * (w[4 * g - 3] \div 16) + (w[4 * g - 1] \div 16)
                   R == w[4 * g - 3] % 2
               IN  SubSeq(w, 4 * g - 3, 4 * g) = FourWrites(b, R, _backlight)
        /\ \A i \in 1..Len(w) : (w[i] \div 2) % 2 = 0
        /\ lastOp \in {"display_on", "set_cursor"} => w = FourWrites(ModeByte, 0, _backlight)
        /\ lastOp = "backlight_on" => w = FourWrites(0, 0, _backlight)

\* the display was turned off with the backlight off: the command 0x08
C16_Witness ==
    /\ lastOp = "display_on" /\ ~_display_on /\ ~_cursor_on /\ ~_blink_on /\ ~_backlight
    /\ WritesOf(io) = <<4, 0, 132, 128>>

-----------------------------------------------------------------------------
(* The events of construction (SpecScroll: displays of 1, 2 and 4 rows). *)

\* the bytes of the bus writes among the events lo .. hi of ev, provided
\* all of these are bus writes; << >> otherwise
WrittenAt(ev, lo, hi) ==
    IF hi <= Len(ev) /\ \A i \in lo..hi : ev[i].k = "write"
    THEN [i \in 1..(hi - lo + 1) |-> ev[lo + i - 1].v]
    ELSE << >>

\* C17: construction makes its events in this order: a delay of at least
\* 40 ms before any bus write; the reset to the 4-bit interface as one
\* nibble (one pulse of Enable, not the two nibbles of a byte); function
\* set with the 4-bit interface, the 5x8 font and the line bit clear exactly
\* when height = 1; the display mode; and only then a clear command, with a
\* delay of at least 1.5 ms before the next bus write, or a data write.
C17_ConstructionOrder ==
    lastOp = "__init__" =>
        LET N == IF _display_height = 1 THEN 0 ELSE 8
        IN  /\ Len(io) >= 16
            /\ io[1].k = "sleep" /\ io[1].v >= 40
            /\ \E nibble \in 0..15 :
                   WrittenAt(io, 2, 3) = <<16 * nibble + 8 + 4, 16 * nibble + 8>>
            /\ WrittenAt(io, 4, 7) = FourWrites(32 + N, 0, TRUE)
            /\ WrittenAt(io, 8, 11) = FourWrites(ModeByte, 0, TRUE)
            /\ WrittenAt(io, 12, 15) = FourWrites(1, 0, TRUE)
            /\ io[16].k = "sleep" /\ 10 * io[16].v >= 15

-----------------------------------------------------------------------------
(* The bytes of a character definition (SpecAddress). *)

\* C18: for a slot s in 0..7 and a bitmap of 8 rows define_custom_character
\* issues, for row = 0, 1, ..., 7 in this order, the command
\* SET_CGRAM_ADDRESS | (s << 3 | row) and right after it the data byte of
\* that row, and nothing else: 16 bytes.
C18_DefineBytes ==
    (lastOp = "define_custom_character" /\ lastArgs[1] \in 0..7
     /\ Len(lastArgs[2]) = 8) =>
        LET s == lastArgs[1]
            bitmap == lastArgs[2]
        IN  /\ raised = "none"
            /\ Len(io) = 64 /\ Len(WritesOf(io)) = 64
            /\ BytesOf(io) =
                   [n \in 1..16 |->
                       IF n % 2 = 1
                       THEN [rs |-> 0, byte |-> 64 + 8 * s + (n - 1) \div 2]
                       ELSE [rs |-> 1, byte |-> bitmap[n \div 2]]]

\* character 7 was defined
C18_Witness ==
    /\ lastOp = "define_custom_character" /\ lastArgs[1] = 7 /\ Len(lastArgs[2]) = 8
    /\ raised = "none" /\ Len(BytesOf(io)) = 16
    /\ BytesOf(io)[15] = [rs |-> 0, byte |-> 127]

-----------------------------------------------------------------------------
(* The display mode command (SpecControl). *)

\* the display mode commands among the bytes: the commands 0x08 .. 0x0F
ModeCommands(bytes) ==
    SelectSeq(bytes, LAMBDA y : y.rs = 0 /\ 8 <= y.byte /\ y.byte < 16)

\* C19: after construction and after every call of display_on or
\* set_cursor, the last display mode command sent is SET_DISPLAY_MODE with
\* exactly the current display, underline cursor and blink flags; each of
\* these calls sends exactly one command, the full mode; and set_cursor
\* never leaves underline and blink both on.
C19_ModeCommand ==
    /\ ~(_cursor_on /\ _blink_on)
    /\ lastOp \in {"__init__", "display_on", "set_cursor"} =>
           LET sent == ModeCommands(BytesOf(io))
           IN  /\ Len(sent) = 1
               /\ sent[1] = [rs |-> 0, byte |-> ModeByte]
    /\ lastOp \in {"display_on", "set_cursor"} =>
           BytesOf(io) = <<[rs |-> 0, byte |-> ModeByte]>>

\* the blinking cursor was selected on a display turned off: the command 0x09
C19_Witness ==
    /\ lastOp = "set_cursor" /\ _blink_on /\ ~_cursor_on /\ ~_display_on
    /\ BytesOf(io) = <<[rs |-> 0, byte |-> 9]>>

-----------------------------------------------------------------------------
(* The bytes of a redraw (SpecRows): displays of two widths, one of them   *)
(* too narrow for an ellipsis in the middle, in every truncation mode.     *)

\* a width below those on which ELLIPSIS_MIDDLE has room for head and tail
NarrowWidth == 3

InitRows ==
    /\ \E width \in {NarrowWidth, MaxWidth}, height \in {1, 2} :
           \E iterable \in InitLists(height) : InitLCD(iterable, width, height)
    /\ TIdle

NextRows ==
    \/ \E item \in Items : append(item, 0)
    \/ \E i \in {-1, 0} : pop(i, 0)
    \/ \E n \in StartLines(_display_height) : show(n, 0)
    \/ \E mode \in TruncateMode : set_truncate_mode(mode)

SpecRows == InitRows /\ [][NextRows]_vars

\* C20: every redraw that writes anything writes, for each row
\* r = 0 .. height - 1 in this order, one set-DDRAM-address command for
\* column 0 of row r and then exactly width data bytes, in every implemented
\* truncation mode, for every length of text, with and without the marker
\* column: no row is written past column width - 1.
C20_RowsOfWidth ==
    (lastOp # "__init__" /\ redraws = 1 /\ raised = "none" /\ io # << >>
     /\ _truncate_mode \in Implemented) =>
        LET bytes == BytesOf(io)
            AddressMap == <<0, 64, 20, 84>>
            per == _display_width + 1
        IN  /\ Len(WritesOf(io)) = 4 * Len(bytes)
            /\ Len(bytes) = _display_height * per
            /\ \A n \in 1..Len(bytes) :
                   IF (n - 1) % per = 0
                   THEN bytes[n] = [rs |-> 0, byte |-> 128 + AddressMap[(n - 1) \div per + 1]]
                   ELSE bytes[n].rs = 1

\* a redraw drew a line longer than the display with the ellipsis at the end
C20_Witness ==
    /\ lastOp \in Mutations /\ redraws = 1 /\ raised = "none"
    /\ _truncate_mode = "ELLIPSIS_END" /\ _display_height = 2
    /\ _current_start_line = 0 /\ Len(data) > 0 /\ data[1] = Long
    /\ Len(BytesOf(io)) = 2 * (_display_width + 1)

-----------------------------------------------------------------------------
(* A show whose redraw fails (SpecFail). *)

\* C21: when show(n) fails because a bus write of its redraw fails, the
\* start line keeps the value it had before the call, so that a later
\* show(n) redraws and is not taken for a call that has nothing to do: the
\* display is not left out of date for a start line the object holds.
C21_FailedShowKeepsStart ==
    [][/\ (lastOp' = "show" /\ raised' = "OSError") =>
              _current_start_line' = _current_start_line
       /\ (lastOp = "show" /\ raised = "OSError" /\ lastOp' = "show" /\ again') =>
              redraws' = 1]_vars

-----------------------------------------------------------------------------
(* Leaving the mode SCROLL (Spec). *)

\* C22: in every reachable state, after SCROLL was selected too,
\* set_truncate_mode(m) with m one of TRUNCATE, ELLIPSIS_END and
\* ELLIPSIS_MIDDLE returns normally, leaves _truncate_mode equal to m and
\* writes nothing to the bus.
C22_ModeCanBeSet ==
    (lastOp = "set_truncate_mode" /\ lastArgs[1] \in Implemented) =>
        /\ raised = "none"
        /\ _truncate_mode = lastArgs[1]
        /\ io = << >>

-----------------------------------------------------------------------------
(* Redraws between character definitions (SpecControl).  A definition     *)
(* leaves the address counter of the controller in the character          *)
(* generator memory; `cgram` tells whether the last operation began there. *)

\* the data bytes of `bytes` all go to display memory: the last command
\* before each that sets the address counter sets it into display memory,
\* and without such a command the counter was there before
IntoDisplayMemory(bytes, before) ==
    LET setting(n) == {j \in 1..(n - 1) :
                          /\ bytes[j].rs = 0
                          /\ \/ bytes[j].byte >= SET_CGRAM_ADDRESS
                             \/ bytes[j].byte = CLEAR_DISPLAY}
        last(n) == CHOOSE j \in setting(n) : \A k \in setting(n) : k <= j
    IN  \A n \in DOMAIN bytes :
            bytes[n].rs = 1 =>
                IF setting(n) = {} THEN ~before
                ELSE \/ bytes[last(n)].byte >= SET_DDRAM_ADDRESS
                     \/ bytes[last(n)].byte = CLEAR_DISPLAY

\* C23: however calls of define_custom_character are interleaved with
\* mutations of the buffer, calls of show and the mode setters, every data
\* byte a redraw writes is written while the address counter of the
\* controller points into display memory: the last command before it that
\* sets the address counter is a set-DDRAM-address, so that no redraw
\* writes into the memory of a defined character.
C23_RedrawIntoDisplayMemory ==
    (redraws = 1 /\ raised = "none") => IntoDisplayMemory(BytesOf(io), cgram)

\* a redraw that wrote text and began with the address counter in the
\* character generator memory, as a definition leaves it
C23_Witness ==
    /\ lastOp \in Mutations \cup {"show"}
    /\ redraws = 1 /\ raised = "none"
    /\ cgram
    /\ \E n \in DOMAIN BytesOf(io) : BytesOf(io)[n].rs = 1

-----------------------------------------------------------------------------
(* What pop gives back (Spec). *)

\* C24: pop(i) with i an index of the buffer removes the element at i and
\* no other, returns the element it removed and redraws; with i no index of
\* the buffer it raises IndexError, leaves the buffer as it was and writes
\* nothing to the bus.
C24_PopReturnsElement ==
    [][lastOp' = "pop" =>
          LET j == Index(data, lastArgs'[1])
          IN  IF j >= 0
              THEN /\ raised' = "none"
                   /\ data' = Without(data, j)
                   /\ retval' = data[j + 1]
                   /\ redraws' = 1
              ELSE /\ raised' = "IndexError"
                   /\ data' = data
                   /\ io' = << >>]_vars

====
